---- MODULE Spec2Model ----
(***************************************************************************)
(* go-playstation-api: the construction of the Client (client.go), the     *)
(* token exchange (auth.go), the authenticated session with lazy refresh   *)
(* and the resource GET (request, requestAndUnmarshal), as a state machine *)
(* over the callers of one Client and one ClientAPI session.  Spec is the  *)
(* sequential program, SpecConfig adds the construction of the Client,     *)
(* SpecRace has two callers on one session, SpecValidate is validateNPSSO  *)
(* alone.                                                                  *)
(*                                                                         *)
(* Time.  time.Time instants and time.Duration are integers counted in     *)
(* clock ticks.  Go counts nanoseconds in an int64 and time.Second is      *)
(* 10^9; the model keeps the two's-complement arithmetic and scales both:  *)
(* a Duration is a signed DurationBits-bit integer and Second ticks make   *)
(* one second, so that Second * lifetime overflows for a lifetime the      *)
(* decoder still accepts, as it does in Go for lifetimes above             *)
(* 9223372036 s.                                                           *)
(*                                                                         *)
(* Errors.  A Go error is the sequence of its messages, outermost first:   *)
(* fmt.Errorf("m: %w", e) is <<"m">> \o e and the nil error is <<>>.       *)
(***************************************************************************)
EXTENDS Integers, Sequences, FiniteSets, TLC

\* The last instant the clock reaches.
MaxTime == 3

\* time.Second, in clock ticks (10^9 ns in Go).
Second == 2

\* The width of int64 / time.Duration (64 in Go).
DurationBits == 4

\* The goroutines that call into the one Client / ClientAPI.
Callers == {"c1", "c2"}

\* The caller of a sequential program.
Solo == {"c1"}

MinInt64 == -(2 ^ (DurationBits - 1))
MaxInt64 == 2 ^ (DurationBits - 1) - 1

\* Two's-complement wrap-around of a product or sum to the int64 range.
WrapInt64(x) ==
    LET m == 2 ^ DurationBits
        y == x % m
    IN  IF y > MaxInt64 THEN y - m ELSE y

----------------------------------------------------------------------------
(* Errors *)

NilErr == <<>>

\* fmt.Errorf("msg: %w", err)
Errorf(msg, err) == <<msg>> \o err

RECURSIVE ErrorText(_)
\* err.Error(): the messages of the chain, joined.
ErrorText(err) ==
    IF Len(err) = 1 THEN err[1] ELSE err[1] \o ": " \o ErrorText(Tail(err))

\* fmt.Errorf("msg: %v", err): the text of err is formatted into the
\* message and err is not wrapped.
Errorv(msg, err) == <<msg \o ": " \o ErrorText(err)>>

\* What ctx.Err() returns once the context is done (context.Canceled or
\* context.DeadlineExceeded).
CtxErr == <<"context canceled">>

\* A transport failure that is not a cancellation (connection refused, reset).
NetErr == <<"connection error">>

\* The *url.Error url.Parse returns.
URLParseErr == <<"invalid URL">>

\* The error json.Unmarshal returns (syntax error or type mismatch).
JSONErr == <<"json error">>

\* errors.Is(err, ctx.Err()): the context's error is at the end of the chain.
IsCancelled(err) == err # NilErr /\ <<err[Len(err)]>> = CtxErr

----------------------------------------------------------------------------
(* Session credential.  A Go string is a sequence of bytes holding UTF-8;  *)
(* the credential is the sequence of its characters, each "a" (one byte)   *)
(* or "U+00E9" (a character that UTF-8 encodes in two bytes).              *)

NPSSOLength == 64

\* The longest credential tried, in characters.
MaxNPSSOChars == 66

EmptyString == <<>>

\* The string of n characters whose first k are two-byte characters.
NPSSOString(n, k) == [i \in 1..n |-> IF i <= k THEN "U+00E9" ELSE "a"]

\* The number of bytes of the UTF-8 encoding of character ch.
UTF8Len(ch) == IF ch = "a" THEN 1 ELSE 2

RECURSIVE ByteLen(_)
\* len(s): the number of bytes of s.
ByteLen(s) == IF s = <<>> THEN 0 ELSE UTF8Len(Head(s)) + ByteLen(Tail(s))

ValidNPSSO == NPSSOString(NPSSOLength, 0)

ShortNPSSO == NPSSOString(5, 0)

\* A second credential of 64 bytes, which differs from ValidNPSSO.
OtherNPSSO == NPSSOString(NPSSOLength - 1, 1)

\* The credentials a caller passes to Authenticate.
NPSSOInputs ==
    {EmptyString, ShortNPSSO, NPSSOString(NPSSOLength, 1), ValidNPSSO,
     OtherNPSSO}

\* The credentials validateNPSSO is tried on: every length up to
\* MaxNPSSOChars, all one-byte characters or with one two-byte character.
ValidateInputs ==
    {NPSSOString(n, k) : n \in 0..MaxNPSSOChars, k \in 0..1} \ {NPSSOString(0, 1)}

ErrNPSSOEmpty == <<"npsso is empty">>
ErrNPSSOLength == <<"npsso must be exactly 64 characters">>

validateNPSSO(npsso) ==
    IF npsso = EmptyString THEN ErrNPSSOEmpty
    ELSE IF ByteLen(npsso) # NPSSOLength THEN ErrNPSSOLength
    ELSE NilErr

----------------------------------------------------------------------------
(* Token Pair *)

\* The zero Tokens value; nil marks the nil *Tokens pointer.
ZeroTokens ==
    [nil |-> FALSE, AccessToken |-> "", RefreshToken |-> "",
     AccessExpires |-> 0, RefreshExpires |-> 0,
     AccessExpiresTime |-> 0, RefreshExpiresTime |-> 0]

NilTokens == [ZeroTokens EXCEPT !.nil = TRUE]

\* time.Second * time.Duration(n): an int64 product, which wraps.
SecondsToDuration(n) == WrapInt64(Second * n)

\* t.Add(d)
TimeAdd(t, d) == t + d

\* Before holding of equal instants too.
Before_OrEqual(t, u) == t <= u

\* t.Before(u)
Before(t, u) == t < u

----------------------------------------------------------------------------
(* The bodies the token endpoint can answer with.  A JSON object is the    *)
(* function from the keys it holds to their values; kind "syntax" is a     *)
(* body that is not JSON, "badtype" a JSON object with expires_in given as *)
(* a string, "readerr" a body whose read fails (io.ReadAll's error).       *)

JSONObject(strs, nums) == [kind |-> "object", strs |-> strs, nums |-> nums]

NoBody == [kind |-> "none", strs |-> <<>>, nums |-> <<>>]

TokenObject(at, rt, a, r) ==
    JSONObject([k \in {"access_token", "refresh_token"} |->
                    IF k = "access_token" THEN at ELSE rt],
               [k \in {"expires_in", "refresh_token_expires_in"} |->
                    IF k = "expires_in" THEN a ELSE r])

EmptyObject == JSONObject(<<>>, <<>>)

TokenBodies ==
    { TokenObject("A", "RA", 1, 2),
      TokenObject("B", "RB", 1, 2),
      TokenObject("A", "RA", 0, 1),
      TokenObject("B", "RB", -1, 1),
      TokenObject("A", "RA", MaxInt64 \div Second + 1, MaxInt64 \div Second + 1),
      EmptyObject,
      [NoBody EXCEPT !.kind = "syntax"],
      [NoBody EXCEPT !.kind = "badtype"],
      [NoBody EXCEPT !.kind = "readerr"] }

StrField(body, k) == IF k \in DOMAIN body.strs THEN body.strs[k] ELSE ""
NumField(body, k) == IF k \in DOMAIN body.nums THEN body.nums[k] ELSE 0

\* json.Unmarshal(body, &tokenResponse): the decoded Tokens and the error.
\* A key the object does not hold leaves the field's zero value; the two
\* expiry instants have no JSON key the endpoint uses and stay zero.
UnmarshalTokens(body) ==
    IF body.kind = "object"
    THEN [err |-> NilErr,
          tokens |-> [ZeroTokens EXCEPT
                        !.AccessToken = StrField(body, "access_token"),
                        !.RefreshToken = StrField(body, "refresh_token"),
                        !.AccessExpires = NumField(body, "expires_in"),
                        !.RefreshExpires = NumField(body, "refresh_token_expires_in")]]
    ELSE [err |-> JSONErr, tokens |-> ZeroTokens]

\* auth.go lines 181-182: the expiry instants, from time.Now() = now.  The
\* two adjacent reads of time.Now() fall within one tick of the clock.
SetExpirationTimes(t, now) ==
    [t EXCEPT
        !.AccessExpiresTime = TimeAdd(now, SecondsToDuration(t.AccessExpires)),
        !.RefreshExpiresTime = TimeAdd(now, SecondsToDuration(t.RefreshExpires))]

----------------------------------------------------------------------------
(* The authorization endpoint's answers.  A string that the code inspects  *)
(* (the code query parameter) is the sequence of its characters.  A        *)
(* Location header is absent (Header.Get gives ""), a string url.Parse     *)
(* rejects ("invalid"), or a URL with its query parameters.                *)

StatusOK == 200
StatusFound == 302
StatusUnauthorized == 401
StatusForbidden == 403
StatusNotFound == 404
StatusTooManyRequests == 429

NoLocation == [kind |-> "absent", query |-> <<>>]
InvalidLocation == [kind |-> "invalid", query |-> <<>>]
LocationWithCode(c) == [kind |-> "url", query |-> [k \in {"code"} |-> c]]
LocationNoCode == [kind |-> "url", query |-> <<>>]

CodeV3abc == <<"v", "3", "a", "b", "c">>
CodeV3x == <<"v", "3", "x">>
CodeV2abc == <<"v", "2", "a", "b", "c">>
CodeV == <<"v">>

\* url.Parse(location)
URLParse(loc) ==
    IF loc.kind = "invalid"
    THEN [err |-> URLParseErr, query |-> <<>>]
    ELSE [err |-> NilErr, query |-> loc.query]

\* url.Values.Get(key): "" when the key is absent.
QueryGet(q, k) == IF k \in DOMAIN q THEN q[k] ELSE <<>>

\* strings.HasPrefix(s, prefix)
HasPrefix(s, prefix) ==
    Len(s) >= Len(prefix) /\ SubSeq(s, 1, Len(prefix)) = prefix

CodePrefix == <<"v", "3">>

NoAuthResp == [status |-> 0, location |-> NoLocation]

AuthResponses ==
    {[status |-> StatusFound, location |-> l] :
        l \in {LocationWithCode(CodeV3abc), LocationWithCode(CodeV3x),
               LocationWithCode(CodeV2abc), LocationWithCode(CodeV),
               LocationNoCode, NoLocation, InvalidLocation}}
    \cup {[status |-> StatusOK, location |-> LocationWithCode(CodeV3abc)],
          [status |-> StatusUnauthorized, location |-> NoLocation],
          [status |-> StatusUnauthorized, location |-> InvalidLocation]}

NoTokenResp == [status |-> 0, body |-> NoBody]

TokenResponses ==
    {[status |-> StatusOK, body |-> b] : b \in TokenBodies}
    \cup {[status |-> 400, body |-> b] :
            b \in {TokenObject("A", "RA", 1, 2), [NoBody EXCEPT !.kind = "syntax"]}}

----------------------------------------------------------------------------
(* The resource endpoints' answers.  A body is a JSON object that may hold *)
(* an "error" object (the envelope of RequestError) beside the payload the *)
(* caller's target decodes; "syntax" is not JSON, "badenvelope" is JSON    *)
(* whose error member has the wrong type, "badtarget" is JSON (without an  *)
(* error code) whose payload has the wrong type for the target, "readerr"  *)
(* a body whose read fails.                                                *)

NoResBody == [kind |-> "none", hasError |-> FALSE, code |-> 0, message |-> "", payload |-> ""]

ResObject(hasError, code, message, payload) ==
    [kind |-> "object", hasError |-> hasError, code |-> code,
     message |-> message, payload |-> payload]

ResBodies ==
    { ResObject(FALSE, 0, "", "profile"),
      ResObject(TRUE, 0, "none", "titles"),
      ResObject(TRUE, 2240526, "Not permitted by access control", ""),
      [NoResBody EXCEPT !.kind = "syntax"],
      [NoResBody EXCEPT !.kind = "badenvelope"],
      [NoResBody EXCEPT !.kind = "badtarget"],
      [NoResBody EXCEPT !.kind = "readerr"] }

NoResResp == [status |-> 0, body |-> NoResBody]

PassThroughStatuses == {StatusOK, StatusUnauthorized, StatusForbidden}

ResStatuses ==
    PassThroughStatuses \cup
    {StatusNotFound, StatusTooManyRequests, 500}

ResResponses ==
    {[status |-> s, body |-> b] : s \in PassThroughStatuses, b \in ResBodies}
    \cup {[status |-> s, body |-> b] :
            s \in ResStatuses \ PassThroughStatuses,
            b \in {[NoResBody EXCEPT !.kind = "syntax"],
                   [NoResBody EXCEPT !.kind = "readerr"]}}

\* json.Unmarshal(body, &requestError): the envelope's code and message.
UnmarshalRequestError(body) ==
    IF body.kind \in {"object", "badtarget"}
    THEN [err |-> NilErr,
          code |-> IF body.hasError THEN body.code ELSE 0,
          message |-> IF body.hasError THEN body.message ELSE ""]
    ELSE [err |-> JSONErr, code |-> 0, message |-> ""]

\* The caller's target before json.Unmarshal(body, v) wrote to it.
TargetUnset == "unset"

\* json.Unmarshal(body, v) on a body that is JSON: a type mismatch leaves
\* the target partly written.
UnmarshalTarget(body) ==
    IF body.kind = "object"
    THEN [err |-> NilErr, target |-> body.payload]
    ELSE [err |-> JSONErr, target |-> "partial"]

----------------------------------------------------------------------------
(* Client configuration, client.go.  An *http.Client is a pointer: the     *)
(* name of an object of the heap httpClients.  Of an http.Client object    *)
(* the model keeps CheckRedirect ("nil": the default policy, which follows *)
(* redirects; "caller": a function of the caller's; "ErrUseLastResponse":  *)
(* the function of client.go line 39) and Timeout, as one of the other     *)
(* settings.  An Options closure is the field it sets and the value it     *)
(* captured.                                                               *)

\* The most options a program passes to NewClient.
MaxOpts == 2

\* The supported languages and regions, first the defaults.
Languages == <<"LangEN", "LangFR">>
Regions == <<"RegionUS", "RegionFR">>

\* IsContain(list, x): whether x is an element of list.
IsContain(list, x) == \E i \in 1..Len(list) : list[i] = x

\* The arguments a program passes to WithLanguage and WithRegion.
LanguageInputs == {Languages[1], Languages[2], "xx-XX"}
RegionInputs == {Regions[1], Regions[2], "RegionXX"}

NilPtr == "nil"

\* The http.Client objects: http.DefaultClient, the one the program made
\* for WithClient, and the copy NewClient makes.
ClientPtrs == {"http.DefaultClient", "caller", "private"}

\* An object that is not allocated.
NoObject == [CheckRedirect |-> "unallocated", Timeout |-> 0]

\* http.DefaultClient = &http.Client{}
DefaultClient == [CheckRedirect |-> "nil", Timeout |-> 0]

\* The http.Client values a program passes to WithClient.
CallerClients ==
    {[CheckRedirect |-> "nil", Timeout |-> 30],
     [CheckRedirect |-> "caller", Timeout |-> 10]}

\* The heap before the program allocated anything.
InitialHeap ==
    [h \in ClientPtrs |-> IF h = "http.DefaultClient" THEN DefaultClient ELSE NoObject]

NilOption == [kind |-> "nil", value |-> ""]

\* What a With... call returned, with the function called and its argument.
NoOptRet == [fn |-> "none", arg |-> "", opt |-> NilOption, err |-> NilErr]

\* client.go lines 60-67
WithLanguage(lang) ==
    IF ~IsContain(Languages, lang)
    THEN [opt |-> NilOption, err |-> <<"unsupported lang", lang>>]
    ELSE [opt |-> [kind |-> "lang", value |-> lang], err |-> NilErr]

\* client.go lines 80-87
WithRegion(region) ==
    IF ~IsContain(Regions, region)
    THEN [opt |-> NilOption, err |-> <<"unsupported region", region>>]
    ELSE [opt |-> [kind |-> "region", value |-> region], err |-> NilErr]

\* WithClient without the nil check of line 101.
WithClient_AcceptsNil(ptr) ==
    [opt |-> [kind |-> "httpClient", value |-> ptr], err |-> NilErr]

\* client.go lines 100-107
WithClient(ptr) ==
    IF ptr = NilPtr
    THEN [opt |-> NilOption, err |-> <<"cannot use nil httpClient">>]
    ELSE [opt |-> [kind |-> "httpClient", value |-> ptr], err |-> NilErr]

\* opt(&c): the closures of lines 64-66, 84-86 and 104-106.
ApplyOption(opt, c) ==
    IF opt.kind = "lang" THEN [c EXCEPT !.lang = opt.value]
    ELSE IF opt.kind = "region" THEN [c EXCEPT !.region = opt.value]
    ELSE [c EXCEPT !.httpClient = opt.value]

RECURSIVE ApplyOptions(_, _)
\* The loop of client.go lines 34-36.
ApplyOptions(os, c) ==
    IF os = <<>> THEN c ELSE ApplyOptions(Tail(os), ApplyOption(Head(os), c))

\* The Client before NewClient built it.
NoClient == [built |-> FALSE, httpClient |-> NilPtr, lang |-> "", region |-> ""]

\* client.go lines 14-20 (Languages[0] and Regions[0] in Go's indexing).
defaultConfig ==
    [built |-> TRUE, httpClient |-> "http.DefaultClient",
     lang |-> Languages[1], region |-> Regions[1]]

\* NewClient without the copy of line 38: CheckRedirect is set on the
\* http.Client c.httpClient points to, which the Client then uses.
NewClient_InPlace(os, heap) ==
    LET c == ApplyOptions(os, defaultConfig)
    IN  [client |-> [built |-> TRUE, httpClient |-> c.httpClient,
                     lang |-> c.lang, region |-> c.region],
         heap |-> [heap EXCEPT
                     ![c.httpClient].CheckRedirect = "ErrUseLastResponse"]]

\* NewClient without the assignment of line 39: the copy keeps the
\* CheckRedirect of the http.Client it was copied from.
NewClient_KeepsPolicy(os, heap) ==
    LET c == ApplyOptions(os, defaultConfig)
    IN  [client |-> [built |-> TRUE, httpClient |-> "private",
                     lang |-> c.lang, region |-> c.region],
         heap |-> [heap EXCEPT !["private"] = heap[c.httpClient]]]

\* client.go lines 32-47: the Client returned, and the heap with the copy
\* of line 38 whose CheckRedirect line 39 set.
NewClient(os, heap) ==
    LET c == ApplyOptions(os, defaultConfig)
        httpClient == [heap[c.httpClient] EXCEPT !.CheckRedirect = "ErrUseLastResponse"]
    IN  [client |-> [built |-> TRUE, httpClient |-> "private",
                     lang |-> c.lang, region |-> c.region],
         heap |-> [heap EXCEPT !["private"] = httpClient]]

----------------------------------------------------------------------------
(* State *)

VARIABLES
    clock,      \* time.Now()
    session,    \* the ClientAPI Authenticate returned: Tokens and NPSSO
    pc,         \* where each caller is
    op,         \* the exported operation each caller is in
    npssoArg,   \* authRequest's npsso parameter
    ctxDone,    \* whether the caller's ctx is cancelled or past its deadline
    authResp,   \* resp of auth.go line 109
    code,       \* code of auth.go line 131
    tokenResp,  \* tokenResp of auth.go line 154
    resResp,    \* resp of request, with the body io.ReadAll gives
    ret,        \* what the function the caller last left returned
    target,     \* v of requestAndUnmarshal
    hist,       \* per call: the expiry seen, the exchanges and GETs it made
    client,     \* the Client NewClient returned
    httpClients,\* the http.Client objects, by pointer
    opts,       \* the Options the program holds for NewClient
    optRet      \* what the last With... call returned

vars == <<clock, session, pc, op, npssoArg, ctxDone, authResp, code,
          tokenResp, resResp, ret, target, hist, client, httpClients, opts,
          optRet>>

\* The configuration side of the state.
config == <<client, httpClients, opts, optRet>>

NoSession == [exists |-> FALSE, Tokens |-> NilTokens, NPSSO |-> EmptyString]

\* A function's results: the tokens and the instant authRequest read from
\* time.Now(), the body request returns, the status its error message
\* carries, and the error.
NoRet == [tokens |-> NilTokens, at |-> 0, body |-> NoResBody, status |-> 0,
          err |-> NilErr]

RetErr(e) == [NoRet EXCEPT !.err = e]

\* What a call has done so far: the tokens the session held when it began;
\* the outcome of the line-27 check; whether the access-expiry instant was
\* in the past when the call looked at the held tokens; the authRequest
\* calls it made and how the last one ended; the resource GETs it sent, the
\* Bearer token of the last one; the code its token POST carried; the
\* authorization GETs and token POSTs it handed to httpClient.Do; what the
\* authorization endpoint answered to its last authorization GET; the
\* tokens its last authRequest returned; the npsso its last authorization
\* GET carried in the Cookie header; whether the access-expiry instant was
\* the current time when the call looked at the held tokens.
NoHist == [held |-> NilTokens, guard |-> "unchecked", expiry |-> "unchecked",
           nExch |-> 0, exch |-> "none", nGet |-> 0, bearer |-> "",
           postCode |-> <<>>, nAuthGet |-> 0, nPost |-> 0,
           served |-> NoAuthResp, got |-> NilTokens, cookie |-> EmptyString,
           atExpiry |-> FALSE]

\* Whether instant t is in the past at time now.
InThePast(t, now) == IF t < now THEN "past" ELSE "notpast"

Init ==
    /\ clock = 0
    /\ session = NoSession
    /\ pc = [p \in Callers |-> "idle"]
    /\ op = [p \in Callers |-> "none"]
    /\ npssoArg = [p \in Callers |-> EmptyString]
    /\ ctxDone = [p \in Callers |-> FALSE]
    /\ authResp = [p \in Callers |-> NoAuthResp]
    /\ code = [p \in Callers |-> <<>>]
    /\ tokenResp = [p \in Callers |-> NoTokenResp]
    /\ resResp = [p \in Callers |-> NoResResp]
    /\ ret = [p \in Callers |-> NoRet]
    /\ target = [p \in Callers |-> TargetUnset]
    /\ hist = [p \in Callers |-> NoHist]
    /\ client = NewClient(<<>>, InitialHeap).client
    /\ httpClients = NewClient(<<>>, InitialHeap).heap
    /\ opts = <<>>
    /\ optRet = NoOptRet

----------------------------------------------------------------------------
(* Environment *)

\* Time passes.
Tick ==
    /\ clock < MaxTime
    /\ clock' = clock + 1
    /\ UNCHANGED <<session, pc, op, npssoArg, ctxDone, authResp, code,
                   tokenResp, resResp, ret, target, hist>>
    /\ UNCHANGED config

\* The caller's context is cancelled, or its deadline passes, while the
\* operation runs.
Cancel(p) ==
    /\ pc[p] \notin {"idle", "done"}
    /\ ~ctxDone[p]
    /\ ctxDone' = [ctxDone EXCEPT ![p] = TRUE]
    /\ UNCHANGED <<clock, session, pc, op, npssoArg, authResp, code,
                   tokenResp, resResp, ret, target, hist>>
    /\ UNCHANGED config

\* The errors httpClient.Do can return: the context's error when the
\* context is done before or during the call, a connection error otherwise.
DoErrors(done) == IF done THEN {CtxErr} ELSE {CtxErr, NetErr}

\* The error http.Client.Do returns for a redirect whose Location does not
\* parse: Do parses the Location before it consults CheckRedirect.
LocationHeaderErr == <<"failed to parse Location header">>

\* What following a redirect can end in: the redirect's target cannot be
\* fetched (the real Location has the scheme com.scee.psxandroid.scecompcall),
\* or it answers in place of the authorization endpoint.
Followed ==
    {[err |-> <<"unsupported protocol scheme">>, resp |-> NoAuthResp],
     [err |-> NilErr, resp |-> [status |-> StatusOK, location |-> NoLocation]]}

\* c.httpClient.Do(req) with the http.Client hc, when the authorization
\* endpoint answers r: a response that is not a redirect, and a redirect
\* without Location, are returned; a redirect is returned as the last
\* response when hc.CheckRedirect returns http.ErrUseLastResponse (client.go
\* lines 39-41) and followed otherwise.
Do(hc, r) ==
    IF r.status # StatusFound \/ r.location.kind = "absent"
    THEN {[err |-> NilErr, resp |-> r]}
    ELSE IF r.location.kind = "invalid"
    THEN {[err |-> LocationHeaderErr, resp |-> NoAuthResp]}
    ELSE IF hc.CheckRedirect = "ErrUseLastResponse"
    THEN {[err |-> NilErr, resp |-> r]}
    ELSE Followed

----------------------------------------------------------------------------
(* Client.Authenticate, auth.go lines 53-70 *)

\* Authenticate calling authRequest whatever validateNPSSO returned.
Authenticate_SkipsValidation(p, npsso) ==
    /\ pc[p] = "idle"
    /\ client.built
    /\ ~session.exists
    /\ \A q \in Callers : op[q] # "Authenticate"
    /\ op' = [op EXCEPT ![p] = "Authenticate"]
    /\ npssoArg' = [npssoArg EXCEPT ![p] = npsso]
    /\ pc' = [pc EXCEPT ![p] = "auth_send"]
    /\ ret' = [ret EXCEPT ![p] = NoRet]
    /\ UNCHANGED <<clock, session, ctxDone, authResp, code, tokenResp,
                   resResp, target, hist>>
    /\ UNCHANGED config

\* Lines 54-58: validate, then call authRequest.  The machine follows one
\* session: Authenticate runs while no session exists yet.
Authenticate(p, npsso) ==
    /\ pc[p] = "idle"
    /\ client.built
    /\ ~session.exists
    /\ \A q \in Callers : op[q] # "Authenticate"
    /\ op' = [op EXCEPT ![p] = "Authenticate"]
    /\ npssoArg' = [npssoArg EXCEPT ![p] = npsso]
    /\ IF validateNPSSO(npsso) # NilErr
       THEN /\ pc' = [pc EXCEPT ![p] = "done"]
            /\ ret' = [ret EXCEPT ![p] =
                         RetErr(Errorv("invalid npsso", validateNPSSO(npsso)))]
       ELSE /\ pc' = [pc EXCEPT ![p] = "auth_send"]
            /\ ret' = [ret EXCEPT ![p] = NoRet]
    /\ UNCHANGED <<clock, session, ctxDone, authResp, code, tokenResp,
                   resResp, target, hist>>
    /\ UNCHANGED config

\* Lines 59-69: the session is built from authRequest's tokens.
AuthenticateReturn(p) ==
    /\ pc[p] = "auth_ret"
    /\ op[p] = "Authenticate"
    /\ pc' = [pc EXCEPT ![p] = "done"]
    /\ IF ret[p].err # NilErr
       THEN /\ ret' = [ret EXCEPT ![p] =
                         RetErr(Errorf("can't do auth request", ret[p].err))]
            /\ UNCHANGED session
       ELSE /\ session' = [exists |-> TRUE, Tokens |-> ret[p].tokens,
                           NPSSO |-> npssoArg[p]]
            /\ UNCHANGED ret
    /\ UNCHANGED <<clock, op, npssoArg, ctxDone, authResp, code, tokenResp,
                   resResp, target, hist>>
    /\ UNCHANGED config

\* ClientAPI's fields are exported: a program can build a session as the
\* composite literal &ClientAPI{Client: c, NPSSO: npsso}, whose Tokens is
\* nil, instead of calling Authenticate.
ClientAPILiteral(p) ==
    /\ pc[p] = "idle"
    /\ client.built
    /\ ~session.exists
    /\ \A q \in Callers : op[q] # "Authenticate"
    /\ session' = [exists |-> TRUE, Tokens |-> NilTokens, NPSSO |-> ValidNPSSO]
    /\ UNCHANGED <<clock, pc, op, npssoArg, ctxDone, authResp, code, tokenResp,
                   resResp, ret, target, hist>>
    /\ UNCHANGED config

----------------------------------------------------------------------------
(* Client.authRequest, auth.go lines 84-185 *)

\* authRequest returns r to its caller; h is the call's history so far.
AuthRequestReturns(p, r, h) ==
    /\ pc' = [pc EXCEPT ![p] = "auth_ret"]
    /\ ret' = [ret EXCEPT ![p] = r]
    /\ hist' = [hist EXCEPT ![p] =
                  [h EXCEPT !.exch = IF r.err = NilErr THEN "ok" ELSE "failed",
                            !.got = r.tokens]]

\* Lines 85-112: the npsso check and the authorization GET, which carries
\* npsso as its cookie (line 106) and which the authorization endpoint
\* answers with r.
AuthSend(p, r) ==
    /\ pc[p] = "auth_send"
    /\ IF npssoArg[p] = EmptyString
       THEN /\ AuthRequestReturns(p, RetErr(<<"npsso parameter is required">>),
                                  hist[p])
            /\ UNCHANGED <<ctxDone, authResp>>
       ELSE \/ \E e \in DoErrors(ctxDone[p]) :
                 /\ AuthRequestReturns(p, RetErr(Errorf("error sending request", e)),
                                       [hist[p] EXCEPT !.nAuthGet = @ + 1,
                                                       !.cookie = npssoArg[p]])
                 /\ ctxDone' = [ctxDone EXCEPT ![p] = @ \/ e = CtxErr]
                 /\ UNCHANGED authResp
            \/ /\ ~ctxDone[p]
               /\ \E o \in Do(httpClients[client.httpClient], r) :
                     LET h == [hist[p] EXCEPT !.nAuthGet = @ + 1, !.served = r,
                                              !.cookie = npssoArg[p]]
                     IN  IF o.err # NilErr
                         THEN /\ AuthRequestReturns(
                                    p, RetErr(Errorf("error sending request", o.err)), h)
                              /\ UNCHANGED authResp
                         ELSE /\ authResp' = [authResp EXCEPT ![p] = o.resp]
                              /\ pc' = [pc EXCEPT ![p] = "auth_check"]
                              /\ hist' = [hist EXCEPT ![p] = h]
                              /\ UNCHANGED ret
               /\ UNCHANGED ctxDone
    /\ UNCHANGED <<clock, session, op, npssoArg, code, tokenResp, resResp,
                   target>>
    /\ UNCHANGED config

\* CheckAuthResponse without the prefix check of line 132.
CheckAuthResponse_NoPrefixCheck(r, done) ==
    LET parsed == URLParse(r.location)
        c == QueryGet(parsed.query, "code")
    IN  IF done
        THEN [err |-> Errorf("request cancelled", CtxErr), code |-> <<>>]
        ELSE IF r.status # StatusFound
        THEN [err |-> <<"error: check npsso">>, code |-> <<>>]
        ELSE IF parsed.err # NilErr
        THEN [err |-> Errorf("error parsing location URL", parsed.err), code |-> <<>>]
        ELSE [err |-> NilErr, code |-> c]

\* CheckAuthResponse without the status check of line 121.
CheckAuthResponse_NoStatusCheck(r, done) ==
    LET parsed == URLParse(r.location)
        c == QueryGet(parsed.query, "code")
    IN  IF done
        THEN [err |-> Errorf("request cancelled", CtxErr), code |-> <<>>]
        ELSE IF parsed.err # NilErr
        THEN [err |-> Errorf("error parsing location URL", parsed.err), code |-> <<>>]
        ELSE IF ~HasPrefix(c, CodePrefix)
        THEN [err |-> <<"error: check npsso">>, code |-> <<>>]
        ELSE [err |-> NilErr, code |-> c]

\* Lines 116-134: what authRequest makes of the authorization response r
\* when ctx.Err() is non-nil (done) or nil: the error it returns, or NilErr
\* and the code it goes on with.
CheckAuthResponse(r, done) ==
    LET parsed == URLParse(r.location)
        c == QueryGet(parsed.query, "code")
    IN  IF done
        THEN [err |-> Errorf("request cancelled", CtxErr), code |-> <<>>]
        ELSE IF r.status # StatusFound
        THEN [err |-> <<"error: check npsso">>, code |-> <<>>]
        ELSE IF parsed.err # NilErr
        THEN [err |-> Errorf("error parsing location URL", parsed.err), code |-> <<>>]
        ELSE IF ~HasPrefix(c, CodePrefix)
        THEN [err |-> <<"error: check npsso">>, code |-> <<>>]
        ELSE [err |-> NilErr, code |-> c]

AuthCheck(p) ==
    /\ pc[p] = "auth_check"
    /\ LET chk == CheckAuthResponse(authResp[p], ctxDone[p])
       IN  IF chk.err # NilErr
           THEN /\ AuthRequestReturns(p, RetErr(chk.err), hist[p])
                /\ UNCHANGED code
           ELSE /\ pc' = [pc EXCEPT ![p] = "token_send"]
                /\ code' = [code EXCEPT ![p] = chk.code]
                /\ UNCHANGED <<ret, hist>>
    /\ UNCHANGED <<clock, session, op, npssoArg, ctxDone, authResp,
                   tokenResp, resResp, target>>
    /\ UNCHANGED config

\* Lines 137-157: the token POST, carrying the code.
TokenSend(p, r) ==
    /\ pc[p] = "token_send"
    /\ \/ \E e \in DoErrors(ctxDone[p]) :
            /\ AuthRequestReturns(p, RetErr(Errorf("error sending token request", e)),
                                  [hist[p] EXCEPT !.postCode = code[p],
                                                  !.nPost = @ + 1])
            /\ ctxDone' = [ctxDone EXCEPT ![p] = @ \/ e = CtxErr]
            /\ UNCHANGED tokenResp
       \/ /\ ~ctxDone[p]
          /\ tokenResp' = [tokenResp EXCEPT ![p] = r]
          /\ pc' = [pc EXCEPT ![p] = "token_check"]
          /\ hist' = [hist EXCEPT ![p].postCode = code[p],
                                  ![p].nPost = @ + 1]
          /\ UNCHANGED <<ctxDone, ret>>
    /\ UNCHANGED <<clock, session, op, npssoArg, authResp, code, resResp,
                   target>>
    /\ UNCHANGED config

\* CheckTokenResponse without the status check of line 165.
CheckTokenResponse_NoStatusCheck(r, done, now) ==
    LET decoded == UnmarshalTokens(r.body)
    IN  IF done
        THEN RetErr(Errorf("token request cancelled", CtxErr))
        ELSE IF r.body.kind = "readerr"
        THEN RetErr(Errorf("error reading response body", NetErr))
        ELSE IF decoded.err # NilErr
        THEN RetErr(Errorf("error parsing token response", decoded.err))
        ELSE [NoRet EXCEPT !.tokens = SetExpirationTimes(decoded.tokens, now),
                           !.at = now]

\* CheckTokenResponse without the ctx.Err() check of line 161.
CheckTokenResponse_NoCtxCheck(r, done, now) ==
    LET decoded == UnmarshalTokens(r.body)
    IN  IF r.status # StatusOK
        THEN RetErr(<<"error: unable to obtain Authentication Token">>)
        ELSE IF r.body.kind = "readerr"
        THEN RetErr(Errorf("error reading response body", NetErr))
        ELSE IF decoded.err # NilErr
        THEN RetErr(Errorf("error parsing token response", decoded.err))
        ELSE [NoRet EXCEPT !.tokens = SetExpirationTimes(decoded.tokens, now),
                           !.at = now]

\* Lines 161-184: what authRequest returns for the token response r when
\* ctx.Err() is non-nil (done) or nil, at time now.
CheckTokenResponse(r, done, now) ==
    LET decoded == UnmarshalTokens(r.body)
    IN  IF done
        THEN RetErr(Errorf("token request cancelled", CtxErr))
        ELSE IF r.status # StatusOK
        THEN RetErr(<<"error: unable to obtain Authentication Token">>)
        ELSE IF r.body.kind = "readerr"
        THEN RetErr(Errorf("error reading response body", NetErr))
        ELSE IF decoded.err # NilErr
        THEN RetErr(Errorf("error parsing token response", decoded.err))
        ELSE [NoRet EXCEPT !.tokens = SetExpirationTimes(decoded.tokens, now),
                           !.at = now]

TokenCheck(p) ==
    /\ pc[p] = "token_check"
    /\ AuthRequestReturns(p, CheckTokenResponse(tokenResp[p], ctxDone[p], clock),
                          hist[p])
    /\ UNCHANGED <<clock, session, op, npssoArg, ctxDone, authResp, code,
                   tokenResp, resResp, target>>
    /\ UNCHANGED config

----------------------------------------------------------------------------
(* ClientAPI.request and requestAndUnmarshal *)

\* A query (GetUserAccountId, GetUserProfile, GetUserGames) is called on
\* the session: requestAndUnmarshal line 106 enters request.
Query(p) ==
    /\ pc[p] = "idle"
    /\ session.exists
    /\ op' = [op EXCEPT ![p] = "request"]
    /\ pc' = [pc EXCEPT ![p] = "req_guard"]
    /\ hist' = [hist EXCEPT ![p].held = session.Tokens]
    /\ UNCHANGED <<clock, session, npssoArg, ctxDone, authResp, code,
                   tokenResp, resResp, ret, target>>
    /\ UNCHANGED config

\* RequestReturns sending the GET again after a 429.
RequestReturns_RetriesOn429(p, r) ==
    /\ pc' = [pc EXCEPT ![p] =
                IF r.err = <<"rate limit exceeded">> THEN "req_send" ELSE "req_ret"]
    /\ ret' = [ret EXCEPT ![p] = r]

\* request returns r to requestAndUnmarshal.
RequestReturns(p, r) ==
    /\ pc' = [pc EXCEPT ![p] = "req_ret"]
    /\ ret' = [ret EXCEPT ![p] = r]

\* TokensInvalid without the check of the access token.
TokensInvalid_NilOnly(t) == t.nil

\* request line 27.
TokensInvalid(t) == t.nil \/ t.AccessToken = ""

\* Lines 27-29.  hist records where the access-expiry instant of a held
\* pair that the check rejects stood; a nil pair has none.
RequestGuard(p) ==
    /\ pc[p] = "req_guard"
    /\ IF TokensInvalid(session.Tokens)
       THEN /\ RequestReturns(p, RetErr(<<"invalid tokens: access token is required">>))
            /\ hist' = [hist EXCEPT
                          ![p].guard = "rejected",
                          ![p].expiry =
                              IF session.Tokens.nil THEN "unchecked"
                              ELSE InThePast(session.Tokens.AccessExpiresTime, clock),
                          ![p].atExpiry =
                              /\ ~session.Tokens.nil
                              /\ session.Tokens.AccessExpiresTime = clock]
       ELSE /\ pc' = [pc EXCEPT ![p] = "req_expiry"]
            /\ hist' = [hist EXCEPT ![p].guard = "passed"]
            /\ UNCHANGED ret
    /\ UNCHANGED <<clock, session, op, npssoArg, ctxDone, authResp, code,
                   tokenResp, resResp, target>>
    /\ UNCHANGED config

\* NeedsRefresh deciding by the refresh-expiry instant.
NeedsRefresh_ByRefreshExpiry(t, now) == Before(t.RefreshExpiresTime, now)

\* NeedsRefresh with a non-strict comparison.
NeedsRefresh_NonStrict(t, now) == ~Before(now, t.AccessExpiresTime)

\* request line 32: whether the held tokens need a refresh at time now.
NeedsRefresh(t, now) == Before(t.AccessExpiresTime, now)

\* The callers inside authRequest.
InExchange(q) ==
    pc[q] \in {"auth_send", "auth_check", "token_send", "token_check", "auth_ret"}

\* RequestExpiry behind a single-flight gate: the check waits while
\* another caller of the session is inside authRequest.
RequestExpiry_SingleFlight(p) ==
    /\ pc[p] = "req_expiry"
    /\ \A q \in Callers \ {p} : ~InExchange(q)
    /\ IF NeedsRefresh(session.Tokens, clock)
       THEN /\ pc' = [pc EXCEPT ![p] = "auth_send"]
            /\ npssoArg' = [npssoArg EXCEPT ![p] = session.NPSSO]
            /\ hist' = [hist EXCEPT
                          ![p].expiry = InThePast(session.Tokens.AccessExpiresTime, clock),
                          ![p].nExch = @ + 1]
       ELSE /\ pc' = [pc EXCEPT ![p] = "req_send"]
            /\ hist' = [hist EXCEPT
                          ![p].expiry = InThePast(session.Tokens.AccessExpiresTime, clock),
                          ![p].atExpiry = (session.Tokens.AccessExpiresTime = clock)]
            /\ UNCHANGED npssoArg
    /\ UNCHANGED <<clock, session, op, ctxDone, authResp, code, tokenResp,
                   resResp, ret, target>>
    /\ UNCHANGED config

\* Lines 32-33: the expiry check, and the call of authRequest with the
\* session's NPSSO.  hist records whether the access-expiry instant was
\* in the past when the call checked it.
RequestExpiry(p) ==
    /\ pc[p] = "req_expiry"
    /\ IF NeedsRefresh(session.Tokens, clock)
       THEN /\ pc' = [pc EXCEPT ![p] = "auth_send"]
            /\ npssoArg' = [npssoArg EXCEPT ![p] = session.NPSSO]
            /\ hist' = [hist EXCEPT
                          ![p].expiry = InThePast(session.Tokens.AccessExpiresTime, clock),
                          ![p].nExch = @ + 1]
       ELSE /\ pc' = [pc EXCEPT ![p] = "req_send"]
            /\ hist' = [hist EXCEPT
                          ![p].expiry = InThePast(session.Tokens.AccessExpiresTime, clock),
                          ![p].atExpiry = (session.Tokens.AccessExpiresTime = clock)]
            /\ UNCHANGED npssoArg
    /\ UNCHANGED <<clock, session, op, ctxDone, authResp, code, tokenResp,
                   resResp, ret, target>>
    /\ UNCHANGED config

\* RefreshResult assigning c.Tokens before the error check.
RefreshResult_AssignsFirst(r, held) ==
    IF r.err # NilErr
    THEN [failed |-> TRUE, err |-> Errorf("error refreshing tokens", r.err),
          tokens |-> r.tokens]
    ELSE [failed |-> FALSE, err |-> NilErr, tokens |-> r.tokens]

\* RefreshResult dropping authRequest's error.
RefreshResult_IgnoresError(r, held) ==
    [failed |-> FALSE, err |-> NilErr,
     tokens |-> IF r.err # NilErr THEN held ELSE r.tokens]

\* RefreshResult updating the access token and its expiry in the Token
\* Pair the session holds, instead of replacing the pair.
RefreshResult_UpdatesInPlace(r, held) ==
    IF r.err # NilErr
    THEN [failed |-> TRUE, err |-> Errorf("error refreshing tokens", r.err),
          tokens |-> held]
    ELSE [failed |-> FALSE, err |-> NilErr,
          tokens |-> [held EXCEPT !.AccessToken = r.tokens.AccessToken,
                                  !.AccessExpires = r.tokens.AccessExpires,
                                  !.AccessExpiresTime = r.tokens.AccessExpiresTime]]

\* Lines 34-38, after authRequest returned (newTokens, err): what request
\* returns early, and the tokens the session holds afterwards.
RefreshResult(r, held) ==
    IF r.err # NilErr
    THEN [failed |-> TRUE, err |-> Errorf("error refreshing tokens", r.err),
          tokens |-> held]
    ELSE [failed |-> FALSE, err |-> NilErr, tokens |-> r.tokens]

\* RefreshReturn replacing the session's Client by a default one.
RefreshReturn_RebuildsClient(p) ==
    /\ pc[p] = "auth_ret"
    /\ op[p] = "request"
    /\ LET res == RefreshResult(ret[p], session.Tokens)
       IN  /\ session' = [session EXCEPT !.Tokens = res.tokens]
           /\ IF res.failed
              THEN RequestReturns(p, RetErr(res.err))
              ELSE /\ pc' = [pc EXCEPT ![p] = "req_send"]
                   /\ ret' = [ret EXCEPT ![p] = NoRet]
    /\ authResp' = [authResp EXCEPT ![p] = NoAuthResp]
    /\ tokenResp' = [tokenResp EXCEPT ![p] = NoTokenResp]
    /\ code' = [code EXCEPT ![p] = <<>>]
    /\ client' = [defaultConfig EXCEPT !.httpClient = client.httpClient]
    /\ UNCHANGED <<clock, op, npssoArg, ctxDone, resResp, target, hist,
                   httpClients, opts, optRet>>

RefreshReturn(p) ==
    /\ pc[p] = "auth_ret"
    /\ op[p] = "request"
    /\ LET res == RefreshResult(ret[p], session.Tokens)
       IN  /\ session' = [session EXCEPT !.Tokens = res.tokens]
           /\ IF res.failed
              THEN RequestReturns(p, RetErr(res.err))
              ELSE /\ pc' = [pc EXCEPT ![p] = "req_send"]
                   /\ ret' = [ret EXCEPT ![p] = NoRet]
    /\ authResp' = [authResp EXCEPT ![p] = NoAuthResp]
    /\ tokenResp' = [tokenResp EXCEPT ![p] = NoTokenResp]
    /\ code' = [code EXCEPT ![p] = <<>>]
    /\ UNCHANGED <<clock, op, npssoArg, ctxDone, resResp, target, hist>>
    /\ UNCHANGED config

\* HandleStatus as in the commented-out cases of lines 75-78: 401 and 403
\* fail instead of passing the body on.
HandleStatus_FailsFast(r) ==
    IF r.status = StatusOK
    THEN [NoRet EXCEPT !.body = r.body]
    ELSE IF r.status = StatusUnauthorized
    THEN RetErr(<<"unauthorized: invalid or expired token">>)
    ELSE IF r.status = StatusForbidden
    THEN RetErr(<<"forbidden: insufficient permissions">>)
    ELSE IF r.status = StatusNotFound
    THEN RetErr(<<"resource not found">>)
    ELSE IF r.status = StatusTooManyRequests
    THEN RetErr(<<"rate limit exceeded">>)
    ELSE [RetErr(<<"unexpected status code">>) EXCEPT !.status = r.status,
                                                      !.body = r.body]

\* Lines 72-89: request's result for a response whose body was read.
HandleStatus(r) ==
    IF r.status \in {StatusOK, StatusUnauthorized, StatusForbidden}
    THEN [NoRet EXCEPT !.body = r.body]
    ELSE IF r.status = StatusNotFound
    THEN RetErr(<<"resource not found">>)
    ELSE IF r.status = StatusTooManyRequests
    THEN RetErr(<<"rate limit exceeded">>)
    ELSE [RetErr(<<"unexpected status code">>) EXCEPT !.status = r.status,
                                                      !.body = r.body]

\* Lines 66-89: the body is read, then the status decides.
HandleResponse(r) ==
    IF r.body.kind = "readerr"
    THEN RetErr(Errorf("error reading response body", NetErr))
    ELSE HandleStatus(r)

\* RequestSend with the access token the session held when the call
\* began, as if request had read it before the refresh.
RequestSend_StaleBearer(p, r) ==
    /\ pc[p] = "req_send"
    /\ hist' = [hist EXCEPT ![p].nGet = @ + 1,
                            ![p].bearer = hist[p].held.AccessToken]
    /\ \/ \E e \in DoErrors(ctxDone[p]) :
            /\ RequestReturns(p, RetErr(Errorf("error sending request", e)))
            /\ ctxDone' = [ctxDone EXCEPT ![p] = @ \/ e = CtxErr]
            /\ UNCHANGED resResp
       \/ /\ ~ctxDone[p]
          /\ resResp' = [resResp EXCEPT ![p] = r]
          /\ RequestReturns(p, HandleResponse(r))
          /\ UNCHANGED ctxDone
    /\ UNCHANGED <<clock, session, op, npssoArg, authResp, code, tokenResp,
                   target>>
    /\ UNCHANGED config

\* Lines 41-89: the resource GET, with the access token the session holds
\* now as its Bearer credential, and the handling of its response.
RequestSend(p, r) ==
    /\ pc[p] = "req_send"
    /\ hist' = [hist EXCEPT ![p].nGet = @ + 1,
                            ![p].bearer = session.Tokens.AccessToken]
    /\ \/ \E e \in DoErrors(ctxDone[p]) :
            /\ RequestReturns(p, RetErr(Errorf("error sending request", e)))
            /\ ctxDone' = [ctxDone EXCEPT ![p] = @ \/ e = CtxErr]
            /\ UNCHANGED resResp
       \/ /\ ~ctxDone[p]
          /\ resResp' = [resResp EXCEPT ![p] = r]
          /\ RequestReturns(p, HandleResponse(r))
          /\ UNCHANGED ctxDone
    /\ UNCHANGED <<clock, session, op, npssoArg, authResp, code, tokenResp,
                   target>>
    /\ UNCHANGED config

\* UnmarshalResult without the envelope's code check of line 116.
UnmarshalResult_NoCodeCheck(r, v) ==
    LET env == UnmarshalRequestError(r.body)
        dec == UnmarshalTarget(r.body)
    IN  IF r.err # NilErr
        THEN [err |-> r.err, target |-> v]
        ELSE IF env.err # NilErr
        THEN [err |-> Errorf("error unmarshaling response", env.err), target |-> v]
        ELSE IF dec.err # NilErr
        THEN [err |-> Errorf("error unmarshaling response", dec.err),
              target |-> dec.target]
        ELSE [err |-> NilErr, target |-> dec.target]

\* requestAndUnmarshal lines 107-124, given what request returned and the
\* target as it was: the error returned and the target afterwards.
UnmarshalResult(r, v) ==
    LET env == UnmarshalRequestError(r.body)
        dec == UnmarshalTarget(r.body)
    IN  IF r.err # NilErr
        THEN [err |-> r.err, target |-> v]
        ELSE IF env.err # NilErr
        THEN [err |-> Errorf("error unmarshaling response", env.err), target |-> v]
        ELSE IF env.code # 0
        THEN [err |-> <<"request error", env.message>>, target |-> v]
        ELSE IF dec.err # NilErr
        THEN [err |-> Errorf("error unmarshaling response", dec.err),
              target |-> dec.target]
        ELSE [err |-> NilErr, target |-> dec.target]

Unmarshal(p) ==
    /\ pc[p] = "req_ret"
    /\ LET res == UnmarshalResult(ret[p], target[p])
       IN  /\ ret' = [ret EXCEPT ![p].err = res.err]
           /\ target' = [target EXCEPT ![p] = res.target]
    /\ pc' = [pc EXCEPT ![p] = "done"]
    /\ UNCHANGED <<clock, session, op, npssoArg, ctxDone, authResp, code,
                   tokenResp, resResp, hist>>
    /\ UNCHANGED config

\* The operation has returned to its caller, who goes on to its next call
\* with a fresh context and a fresh target.
Return(p) ==
    /\ pc[p] = "done"
    /\ pc' = [pc EXCEPT ![p] = "idle"]
    /\ op' = [op EXCEPT ![p] = "none"]
    /\ npssoArg' = [npssoArg EXCEPT ![p] = EmptyString]
    /\ ctxDone' = [ctxDone EXCEPT ![p] = FALSE]
    /\ authResp' = [authResp EXCEPT ![p] = NoAuthResp]
    /\ code' = [code EXCEPT ![p] = <<>>]
    /\ tokenResp' = [tokenResp EXCEPT ![p] = NoTokenResp]
    /\ resResp' = [resResp EXCEPT ![p] = NoResResp]
    /\ ret' = [ret EXCEPT ![p] = NoRet]
    /\ target' = [target EXCEPT ![p] = TargetUnset]
    /\ hist' = [hist EXCEPT ![p] = NoHist]
    /\ UNCHANGED <<clock, session>>
    /\ UNCHANGED config

----------------------------------------------------------------------------

\* A sequential program: one caller, every answer of the three endpoints.
Next ==
    \/ Tick
    \/ \E p \in Solo : Cancel(p)
    \/ \E p \in Solo : \E npsso \in NPSSOInputs : Authenticate(p, npsso)
    \/ \E p \in Solo : AuthenticateReturn(p)
    \/ \E p \in Solo : ClientAPILiteral(p)
    \/ \E p \in Solo : \E r \in AuthResponses : AuthSend(p, r)
    \/ \E p \in Solo : AuthCheck(p)
    \/ \E p \in Solo : \E r \in TokenResponses : TokenSend(p, r)
    \/ \E p \in Solo : TokenCheck(p)
    \/ \E p \in Solo : Query(p)
    \/ \E p \in Solo : RequestGuard(p)
    \/ \E p \in Solo : RequestExpiry(p)
    \/ \E p \in Solo : RefreshReturn(p)
    \/ \E p \in Solo : \E r \in ResResponses : RequestSend(p, r)
    \/ \E p \in Solo : Unmarshal(p)
    \/ \E p \in Solo : Return(p)

Spec == Init /\ [][Next]_vars

----------------------------------------------------------------------------
(* Construction: a program makes its options, checks each error, builds    *)
(* the Client with the options it got and then uses it.                    *)

\* The answers of the endpoints tried with every Client and with two
\* callers.
FewAuthResponses ==
    {[status |-> StatusFound, location |-> LocationWithCode(CodeV3abc)],
     [status |-> StatusUnauthorized, location |-> NoLocation]}

FewTokenResponses ==
    {[status |-> StatusOK, body |-> TokenObject("A", "RA", 1, 2)],
     [status |-> StatusOK, body |-> TokenObject("B", "RB", 0, 1)],
     [status |-> 400, body |-> [NoBody EXCEPT !.kind = "syntax"]]}

FewResResponses ==
    {[status |-> StatusOK, body |-> ResObject(FALSE, 0, "", "profile")],
     [status |-> StatusTooManyRequests, body |-> [NoResBody EXCEPT !.kind = "syntax"]]}

\* No Client is built yet.
InitConfig ==
    /\ clock = 0
    /\ session = NoSession
    /\ pc = [p \in Callers |-> "idle"]
    /\ op = [p \in Callers |-> "none"]
    /\ npssoArg = [p \in Callers |-> EmptyString]
    /\ ctxDone = [p \in Callers |-> FALSE]
    /\ authResp = [p \in Callers |-> NoAuthResp]
    /\ code = [p \in Callers |-> <<>>]
    /\ tokenResp = [p \in Callers |-> NoTokenResp]
    /\ resResp = [p \in Callers |-> NoResResp]
    /\ ret = [p \in Callers |-> NoRet]
    /\ target = [p \in Callers |-> TargetUnset]
    /\ hist = [p \in Callers |-> NoHist]
    /\ client = NoClient
    /\ httpClients = InitialHeap
    /\ opts = <<>>
    /\ optRet = NoOptRet

\* The program keeps the option of a With... call that returned no error.
KeepOption(fn, arg, res) ==
    /\ optRet' = [fn |-> fn, arg |-> arg, opt |-> res.opt, err |-> res.err]
    /\ opts' = IF res.err = NilErr THEN Append(opts, res.opt) ELSE opts

\* opt, err := WithLanguage(lang)
CallWithLanguage(p, lang) ==
    /\ pc[p] = "idle" /\ ~client.built /\ Len(opts) < MaxOpts
    /\ KeepOption("WithLanguage", lang, WithLanguage(lang))
    /\ UNCHANGED <<clock, session, pc, op, npssoArg, ctxDone, authResp, code,
                   tokenResp, resResp, ret, target, hist, client, httpClients>>

\* opt, err := WithRegion(region)
CallWithRegion(p, region) ==
    /\ pc[p] = "idle" /\ ~client.built /\ Len(opts) < MaxOpts
    /\ KeepOption("WithRegion", region, WithRegion(region))
    /\ UNCHANGED <<clock, session, pc, op, npssoArg, ctxDone, authResp, code,
                   tokenResp, resResp, ret, target, hist, client, httpClients>>

\* opt, err := WithClient(ptr), where ptr is nil or points to the
\* http.Client hc the program made.
CallWithClient(p, ptr, hc) ==
    /\ pc[p] = "idle" /\ ~client.built /\ Len(opts) < MaxOpts
    /\ ptr # NilPtr => httpClients[ptr] \in {NoObject, hc}
    /\ httpClients' = IF ptr = NilPtr THEN httpClients
                      ELSE [httpClients EXCEPT ![ptr] = hc]
    /\ KeepOption("WithClient", ptr, WithClient(ptr))
    /\ UNCHANGED <<clock, session, pc, op, npssoArg, ctxDone, authResp, code,
                   tokenResp, resResp, ret, target, hist, client>>

\* client := NewClient(opts...); the program is done with its options.
CallNewClient(p) ==
    /\ pc[p] = "idle" /\ ~client.built
    /\ client' = NewClient(opts, httpClients).client
    /\ httpClients' = NewClient(opts, httpClients).heap
    /\ opts' = <<>>
    /\ optRet' = NoOptRet
    /\ UNCHANGED <<clock, session, pc, op, npssoArg, ctxDone, authResp, code,
                   tokenResp, resResp, ret, target, hist>>

\* One caller that configures, builds and uses a Client.
NextConfig ==
    \/ \E p \in Solo : \E lang \in LanguageInputs : CallWithLanguage(p, lang)
    \/ \E p \in Solo : \E region \in RegionInputs : CallWithRegion(p, region)
    \/ \E p \in Solo : \E ptr \in {NilPtr, "caller"} : \E hc \in CallerClients :
            CallWithClient(p, ptr, hc)
    \/ \E p \in Solo : CallNewClient(p)
    \/ Tick
    \/ \E p \in Solo : Authenticate(p, ValidNPSSO)
    \/ \E p \in Solo : AuthenticateReturn(p)
    \/ \E p \in Solo : \E r \in FewAuthResponses : AuthSend(p, r)
    \/ \E p \in Solo : AuthCheck(p)
    \/ \E p \in Solo : \E r \in FewTokenResponses : TokenSend(p, r)
    \/ \E p \in Solo : TokenCheck(p)
    \/ \E p \in Solo : Query(p)
    \/ \E p \in Solo : RequestGuard(p)
    \/ \E p \in Solo : RequestExpiry(p)
    \/ \E p \in Solo : RefreshReturn(p)
    \/ \E p \in Solo : \E r \in FewResResponses : RequestSend(p, r)
    \/ \E p \in Solo : Unmarshal(p)
    \/ \E p \in Solo : Return(p)

SpecConfig == InitConfig /\ [][NextConfig]_vars

----------------------------------------------------------------------------
(* Two goroutines call into one session without synchronization.  A step   *)
(* of the model reads or writes c.Tokens once: the check of line 27, the   *)
(* check of line 32, the assignment of line 37 and the read of line 47     *)
(* are steps of their own, and the steps of the two callers interleave.    *)

\* The token endpoint's answers to racing exchanges: two Token Pairs that
\* differ in both tokens, and a refusal.
RaceTokenResponses ==
    {[status |-> StatusOK, body |-> TokenObject("A", "RA", 1, 2)],
     [status |-> StatusOK, body |-> TokenObject("B", "RB", 1, 2)],
     [status |-> 400, body |-> [NoBody EXCEPT !.kind = "syntax"]]}

NextRace ==
    \/ Tick
    \/ \E p \in Callers : Cancel(p)
    \/ \E p \in Callers : Authenticate(p, ValidNPSSO)
    \/ \E p \in Callers : AuthenticateReturn(p)
    \/ \E p \in Callers : \E r \in FewAuthResponses : AuthSend(p, r)
    \/ \E p \in Callers : AuthCheck(p)
    \/ \E p \in Callers : \E r \in RaceTokenResponses : TokenSend(p, r)
    \/ \E p \in Callers : TokenCheck(p)
    \/ \E p \in Callers : Query(p)
    \/ \E p \in Callers : RequestGuard(p)
    \/ \E p \in Callers : RequestExpiry(p)
    \/ \E p \in Callers : RefreshReturn(p)
    \/ \E p \in Callers : \E r \in FewResResponses : RequestSend(p, r)
    \/ \E p \in Callers : Unmarshal(p)
    \/ \E p \in Callers : Return(p)

SpecRace == Init /\ [][NextRace]_vars

----------------------------------------------------------------------------
(* validateNPSSO on its own, auth.go lines 31-39 *)

\* A caller is about to validate the credential s.
InitValidate ==
    /\ clock = 0
    /\ session = NoSession
    /\ pc = [p \in Callers |-> "idle"]
    /\ op = [p \in Callers |-> "none"]
    /\ \E s \in ValidateInputs :
          npssoArg = [p \in Callers |-> IF p \in Solo THEN s ELSE EmptyString]
    /\ ctxDone = [p \in Callers |-> FALSE]
    /\ authResp = [p \in Callers |-> NoAuthResp]
    /\ code = [p \in Callers |-> <<>>]
    /\ tokenResp = [p \in Callers |-> NoTokenResp]
    /\ resResp = [p \in Callers |-> NoResResp]
    /\ ret = [p \in Callers |-> NoRet]
    /\ target = [p \in Callers |-> TargetUnset]
    /\ hist = [p \in Callers |-> NoHist]
    /\ client = NewClient(<<>>, InitialHeap).client
    /\ httpClients = NewClient(<<>>, InitialHeap).heap
    /\ opts = <<>>
    /\ optRet = NoOptRet

\* err := validateNPSSO(npsso)
Validate(p) ==
    /\ pc[p] = "idle"
    /\ op' = [op EXCEPT ![p] = "validateNPSSO"]
    /\ pc' = [pc EXCEPT ![p] = "done"]
    /\ ret' = [ret EXCEPT ![p] = RetErr(validateNPSSO(npssoArg[p]))]
    /\ UNCHANGED <<clock, session, npssoArg, ctxDone, authResp, code,
                   tokenResp, resResp, target, hist>>
    /\ UNCHANGED config

NextValidate == \E p \in Solo : Validate(p)

SpecValidate == InitValidate /\ [][NextValidate]_vars

----------------------------------------------------------------------------
(* Failure kinds, by the error the code returns *)

AuthorizationFailed == <<"error: check npsso">>
LocationParseFailed == Errorf("error parsing location URL", URLParseErr)
TokenExchangeFailed == <<"error: unable to obtain Authentication Token">>
AuthCancelled == Errorf("request cancelled", CtxErr)
TokenCancelled == Errorf("token request cancelled", CtxErr)
IsMalformedTokenResponse(err) ==
    err # NilErr /\ err[1] = "error parsing token response"
IsRefreshFailed(err) == err # NilErr /\ err[1] = "error refreshing tokens"
NotFound == <<"resource not found">>
RateLimited == <<"rate limit exceeded">>
IsUnexpectedStatus(err) == err # NilErr /\ err[1] = "unexpected status code"
IsMalformedResponse(err) ==
    err # NilErr /\ err[1] = "error unmarshaling response"
RemoteError(message) == <<"request error", message>>
UnsupportedLanguage(lang) == <<"unsupported lang", lang>>
UnsupportedRegion(region) == <<"unsupported region", region>>
NilTransport == <<"cannot use nil httpClient">>

----------------------------------------------------------------------------
(* C1 *)

\* A call's re-exchange is over before its GET: no GET is counted while
\* the call is inside authRequest, and a call makes at most one.
ExchangeBeforeGet(p) ==
    /\ hist[p].nExch <= 1
    /\ pc[p] \in {"auth_send", "auth_check", "token_send", "token_check", "auth_ret"}
         => hist[p].nGet = 0
    /\ (hist[p].nGet > 0 /\ hist[p].nExch = 1) => hist[p].exch = "ok"

----------------------------------------------------------------------------
(* C2 *)

\* C2: while a protected call has not had a successful re-exchange, and
\* after its re-exchange failed, the session holds the Token Pair it held
\* when the call began.
C2_TokensKeptOnFailure ==
    \A p \in Callers :
        (op[p] = "request" /\ hist[p].exch # "ok")
            => session.Tokens = hist[p].held

\* A call whose re-exchange was cancelled before the token endpoint
\* answered has returned.
C2_Witness ==
    \E p \in Callers :
        /\ op[p] = "request" /\ pc[p] = "done"
        /\ hist[p].exch = "failed"
        /\ ret[p].err = <<"error refreshing tokens",
                          "error sending token request", "context canceled">>
        /\ session.Tokens = hist[p].held

----------------------------------------------------------------------------
(* C3 *)

\* C3: a protected call whose re-exchange failed sends no resource GET and
\* returns the refresh failure.
C3_RefreshFailedAborts ==
    \A p \in Callers :
        (op[p] = "request" /\ hist[p].exch = "failed") =>
            /\ hist[p].nGet = 0
            /\ pc[p] \in {"auth_ret", "req_ret", "done"}
            /\ pc[p] \in {"req_ret", "done"} => IsRefreshFailed(ret[p].err)

C3_Witness ==
    \E p \in Callers :
        /\ op[p] = "request" /\ pc[p] = "done"
        /\ hist[p].exch = "failed" /\ hist[p].nGet = 0
        /\ ret[p].err = Errorf("error refreshing tokens", AuthorizationFailed)

----------------------------------------------------------------------------
(* C4 *)

\* The authorization response is one the claim names: a status other than
\* 302, or a Location that is missing or unparseable, or a code that does
\* not begin with v3.
BadAuthResponse(r) ==
    \/ r.status # 302
    \/ r.location.kind \in {"absent", "invalid"}
    \/ "code" \notin DOMAIN r.location.query
    \/ LET c == r.location.query["code"]
       IN  ~(Len(c) >= 2 /\ c[1] = "v" /\ c[2] = "3")

\* authRequest has returned after receiving an authorization response
\* the claim names.
ReturnedOnBadAuth(p) ==
    /\ pc[p] = "auth_ret"
    /\ hist[p].served.status # 0
    /\ BadAuthResponse(hist[p].served)

----------------------------------------------------------------------------
(* C5 *)

\* authRequest has returned after receiving a token response.
ReturnedOnTokenResponse(p) == pc[p] = "auth_ret" /\ tokenResp[p].status # 0

\* The token body is one json.Unmarshal rejects.
Undecodable(body) == body.kind \in {"syntax", "badtype"}

\* C5 as stated: a status other than 200 fails with TokenExchangeFailed, a
\* 200 with an undecodable body with MalformedTokenResponse, both without
\* a Token Pair, and a Token Pair comes only from a 200 with a decodable
\* body.
C5_AsStated ==
    \A p \in Callers : ReturnedOnTokenResponse(p) =>
        /\ tokenResp[p].status # 200 =>
             (ret[p].err = TokenExchangeFailed /\ ret[p].tokens = NilTokens)
        /\ (tokenResp[p].status = 200 /\ Undecodable(tokenResp[p].body)) =>
             (IsMalformedTokenResponse(ret[p].err) /\ ret[p].tokens = NilTokens)
        /\ ret[p].tokens # NilTokens =>
             (tokenResp[p].status = 200 /\ tokenResp[p].body.kind = "object")

\* C5, amended: as stated, except that when the context is done as the
\* token response is checked the exchange fails with Cancelled instead
\* (still without a Token Pair).
C5_TokenFailures ==
    \A p \in Callers : ReturnedOnTokenResponse(p) =>
        /\ tokenResp[p].status # 200 =>
             /\ ret[p].tokens = NilTokens
             /\ \/ ret[p].err = TokenExchangeFailed
                \/ ctxDone[p] /\ ret[p].err = TokenCancelled
        /\ (tokenResp[p].status = 200 /\ Undecodable(tokenResp[p].body)) =>
             /\ ret[p].tokens = NilTokens
             /\ \/ IsMalformedTokenResponse(ret[p].err)
                \/ ctxDone[p] /\ ret[p].err = TokenCancelled
        /\ ret[p].tokens # NilTokens =>
             (tokenResp[p].status = 200 /\ tokenResp[p].body.kind = "object")

\* A 200 with a body that is not JSON has failed the exchange.
C5_Witness ==
    \E p \in Callers :
        /\ ReturnedOnTokenResponse(p)
        /\ tokenResp[p].status = 200 /\ tokenResp[p].body.kind = "syntax"
        /\ IsMalformedTokenResponse(ret[p].err)

----------------------------------------------------------------------------
(* C6 *)

\* authRequest returns the context's error and no Token Pair.
ReturnsCancelled(p) ==
    /\ pc'[p] = "auth_ret"
    /\ IsCancelled(ret'[p].err)
    /\ ret'[p].tokens = NilTokens

\* C6: when the context is done as authRequest checks it after either call
\* (lines 116 and 161), or becomes or is done during the call, authRequest
\* returns the context's error and no Token Pair, whatever the response.
C6_CancelledExchange ==
    [][\A p \in Callers :
         /\ (pc[p] \in {"auth_check", "token_check"} /\ ctxDone[p]
                /\ pc'[p] # pc[p])
              => ReturnsCancelled(p)
         /\ (pc[p] \in {"auth_send", "token_send"} /\ npssoArg[p] # EmptyString
                /\ ctxDone'[p] /\ pc'[p] # pc[p])
              => ReturnsCancelled(p)]_vars

\* The context was cancelled after the token endpoint answered 200 with a
\* decodable body, and authRequest returned Cancelled.
C6_Witness ==
    \E p \in Callers :
        /\ pc[p] = "auth_ret" /\ ctxDone[p]
        /\ tokenResp[p].status = 200 /\ tokenResp[p].body.kind = "object"
        /\ ret[p].err = TokenCancelled
        /\ ret[p].tokens = NilTokens

----------------------------------------------------------------------------
(* C7 *)

\* C7: the Token Pair of an exchange that completed at time T with
\* lifetimes a and r has access-expiry T + a seconds and refresh-expiry
\* T + r seconds.
C7_ExpiryIsTimePlusLifetime ==
    \A p \in Callers :
        (pc[p] = "auth_ret" /\ ret[p].err = NilErr) =>
            /\ ret[p].tokens.AccessExpiresTime =
                 ret[p].at + Second * NumField(tokenResp[p].body, "expires_in")
            /\ ret[p].tokens.RefreshExpiresTime =
                 ret[p].at + Second * NumField(tokenResp[p].body,
                                               "refresh_token_expires_in")

----------------------------------------------------------------------------
(* C8 *)

\* C8: the access-expiry instant of every Token Pair the exchange produces
\* is at or after the time the exchange completed.
C8_AccessExpiryNotBeforeExchange ==
    \A p \in Callers :
        (pc[p] = "auth_ret" /\ ret[p].err = NilErr) =>
            ret[p].tokens.AccessExpiresTime >= ret[p].at

----------------------------------------------------------------------------
(* C9 *)

\* request has returned after a response whose body was read.
ReturnedOnResponse(p) ==
    /\ pc[p] = "req_ret"
    /\ resResp[p].status # 0
    /\ resResp[p].body.kind # "readerr"

\* C9: 200, 401 and 403 return the response body unchanged; 404 fails with
\* NotFound; 429 with RateLimited; any other status with UnexpectedStatus
\* carrying the status and the body.
C9_StatusDecidesOutcome ==
    \A p \in Callers : ReturnedOnResponse(p) =>
        LET s == resResp[p].status
        IN  /\ s \in {200, 401, 403} =>
                 (ret[p].err = NilErr /\ ret[p].body = resResp[p].body)
            /\ s = 404 => ret[p].err = NotFound
            /\ s = 429 => ret[p].err = RateLimited
            /\ s \notin {200, 401, 403, 404, 429} =>
                 /\ IsUnexpectedStatus(ret[p].err)
                 /\ ret[p].status = s
                 /\ ret[p].body = resResp[p].body

\* A 401 passed its body on.
C9_Witness ==
    \E p \in Callers :
        /\ ReturnedOnResponse(p)
        /\ resResp[p].status = 401
        /\ ret[p].err = NilErr
        /\ ret[p].body = resResp[p].body
        /\ ret[p].body.kind = "object"

----------------------------------------------------------------------------
(* C10 *)

\* requestAndUnmarshal has returned, and request had returned a body.
UnmarshalledBody(p) ==
    /\ op[p] = "request" /\ pc[p] = "done"
    /\ resResp[p].status \in {200, 401, 403}
    /\ resResp[p].body.kind # "readerr"

\* C10: a body that is not JSON, or whose envelope does not decode, fails
\* with MalformedResponse; an envelope with a non-zero code fails with
\* RemoteError carrying its message and leaves the target as it was; with
\* a zero code the body is decoded into the target, and fails with
\* MalformedResponse when that decoding fails.
C10_EnvelopeFirst ==
    \A p \in Callers : UnmarshalledBody(p) =>
        LET b == resResp[p].body
            envelopeOK == b.kind \in {"object", "badtarget"}
            envCode == IF b.hasError THEN b.code ELSE 0
        IN  /\ ~envelopeOK =>
                 (IsMalformedResponse(ret[p].err) /\ target[p] = TargetUnset)
            /\ (envelopeOK /\ envCode # 0) =>
                 (ret[p].err = RemoteError(b.message) /\ target[p] = TargetUnset)
            /\ (envelopeOK /\ envCode = 0 /\ b.kind = "object") =>
                 (ret[p].err = NilErr /\ target[p] = b.payload)
            /\ (envelopeOK /\ envCode = 0 /\ b.kind = "badtarget") =>
                 IsMalformedResponse(ret[p].err)

\* A 403 whose envelope carries a code has failed with RemoteError.
C10_Witness ==
    \E p \in Callers :
        /\ UnmarshalledBody(p)
        /\ resResp[p].status = 403
        /\ resResp[p].body.code # 0
        /\ ret[p].err = RemoteError(resResp[p].body.message)
        /\ target[p] = TargetUnset

----------------------------------------------------------------------------
(* C11 *)

\* The requests a call has handed to the transport so far.
RequestsSent(p) == hist[p].nAuthGet + hist[p].nPost + hist[p].nGet

\* The resource GET of the call failed: the transport returned an error, or
\* the response's status is not one whose body is passed on.
GetFailed(p) ==
    /\ hist[p].nGet > 0
    /\ \/ resResp[p].status = 0
       \/ resResp[p].status \notin {200, 401, 403}

\* C11: a protected call sends at most one resource GET; once the GET is
\* sent the call is on its way back to the caller, and when the GET failed
\* (429, 5xx, another failing status, a transport error) request has
\* returned that failure; no step of a call that has sent its GET sends
\* another request.
C11_NoRetry ==
    [][\A p \in Callers : (op[p] = "request" /\ hist[p].nGet > 0) =>
         /\ hist[p].nGet = 1
         /\ pc[p] \in {"req_ret", "done"}
         /\ GetFailed(p) => ret[p].err # NilErr
         /\ op'[p] = "request" => RequestsSent(p)' = RequestsSent(p)]_vars

\* A GET answered 429 was returned as RateLimited after one GET.
C11_Witness ==
    \E p \in Callers :
        /\ op[p] = "request" /\ pc[p] = "done"
        /\ hist[p].nGet = 1 /\ resResp[p].status = 429
        /\ ret[p].err = RateLimited

----------------------------------------------------------------------------
(* C12 *)

\* C12: validate fails with Empty on the empty credential, with
\* WrongLength on a non-empty credential whose length is not 64
\* characters, and succeeds on every credential of 64 characters.
C12_ValidateByCharacters ==
    \A p \in Callers : (op[p] = "validateNPSSO" /\ pc[p] = "done") =>
        LET s == npssoArg[p]
        IN  /\ s = EmptyString => ret[p].err = ErrNPSSOEmpty
            /\ (s # EmptyString /\ Len(s) # 64) => ret[p].err = ErrNPSSOLength
            /\ Len(s) = 64 => ret[p].err = NilErr

----------------------------------------------------------------------------
(* C13 *)

\* C13: Authenticate called with a credential that validateNPSSO rejects
\* has returned an error and no session, and has sent neither the
\* authorization GET nor the token POST.
C13_InvalidCredentialNoNetwork ==
    \A p \in Callers :
        (op[p] = "Authenticate" /\ validateNPSSO(npssoArg[p]) # NilErr) =>
            /\ pc[p] = "done"
            /\ ret[p].err # NilErr
            /\ ret[p].tokens = NilTokens
            /\ ~session.exists
            /\ hist[p].nAuthGet = 0 /\ hist[p].nPost = 0

\* Authenticate has rejected a credential of five characters.
C13_Witness ==
    \E p \in Callers :
        /\ op[p] = "Authenticate" /\ pc[p] = "done"
        /\ npssoArg[p] = ShortNPSSO
        /\ ret[p].err = <<"invalid npsso: npsso must be exactly 64 characters">>
        /\ ~session.exists /\ hist[p].nAuthGet = 0

----------------------------------------------------------------------------
(* C20 *)

\* The call is in, or has just left, the exchange whose token POST it sent.
PostedInExchange(p) ==
    /\ hist[p].nPost > 0
    /\ \/ pc[p] \in {"token_check", "auth_ret"}
       \/ op[p] = "Authenticate" /\ pc[p] = "done"

\* C20: an exchange sends at most one authorization GET and at most one
\* token POST; the POST is sent only after the authorization GET was
\* answered 302 with a Location whose code begins with v3, and carries
\* that code.
C20_GetThenPost ==
    \A p \in Callers :
        /\ hist[p].nAuthGet <= 1 /\ hist[p].nPost <= 1
        /\ hist[p].nPost <= hist[p].nAuthGet
        /\ PostedInExchange(p) =>
             LET l == authResp[p].location
             IN  /\ authResp[p].status = 302
                 /\ l.kind = "url" /\ "code" \in DOMAIN l.query
                 /\ Len(l.query["code"]) >= 2
                 /\ l.query["code"][1] = "v" /\ l.query["code"][2] = "3"
                 /\ hist[p].postCode = l.query["code"]

\* The token POST was sent with the code v3abc of the Location.
C20_Witness ==
    \E p \in Callers :
        /\ pc[p] = "token_check"
        /\ hist[p].nAuthGet = 1 /\ hist[p].nPost = 1
        /\ authResp[p] = [status |-> 302, location |-> LocationWithCode(CodeV3abc)]
        /\ hist[p].postCode = CodeV3abc

----------------------------------------------------------------------------
(* C16 *)

\* The session held no Token Pair, or one with an empty access token, when
\* the protected call began.
CalledUnauthenticated(p) ==
    /\ op[p] = "request"
    /\ hist[p].held.nil \/ hist[p].held.AccessToken = ""

\* C16: a protected call on a session whose Token Pair is absent or has an
\* empty access token fails with the invalid-tokens error, hands no
\* request to the transport (no re-exchange, no resource GET) and leaves
\* the session as it was.
C16_UnauthenticatedRejected ==
    [][\A p \in Callers : CalledUnauthenticated(p) =>
         /\ session' = session
         /\ op'[p] = "request" =>
              /\ pc'[p] \in {"req_guard", "req_ret", "done"}
              /\ RequestsSent(p)' = 0
              /\ pc'[p] \in {"req_ret", "done"} =>
                   ret'[p].err = <<"invalid tokens: access token is required">>]_vars

\* A protected call on a session without a Token Pair has failed.
C16_Witness ==
    \E p \in Callers :
        /\ op[p] = "request" /\ pc[p] = "done"
        /\ session.exists /\ session.Tokens.nil
        /\ hist[p].guard = "rejected" /\ RequestsSent(p) = 0
        /\ ret[p].err = <<"invalid tokens: access token is required">>

----------------------------------------------------------------------------
(* C17 *)

\* C17: the transport of every Client NewClient returned has redirect
\* following disabled, and the response an exchange checks is the
\* authorization endpoint's own answer, a 302 included.
C17_RedirectsDisabled ==
    /\ client.built =>
         httpClients[client.httpClient].CheckRedirect = "ErrUseLastResponse"
    /\ \A p \in Callers : pc[p] = "auth_check" => authResp[p] = hist[p].served

\* A Client built over the caller's http.Client, which had a redirect
\* policy of its own, handed a 302 to the exchange.
C17_Witness ==
    /\ client.built
    /\ httpClients["caller"].CheckRedirect = "caller"
    /\ httpClients[client.httpClient] =
         [CheckRedirect |-> "ErrUseLastResponse", Timeout |-> 10]
    /\ \E p \in Callers :
         pc[p] = "auth_check" /\ authResp[p].status = 302

----------------------------------------------------------------------------
(* C18 *)

\* The elements of a list.
Range(list) == {list[i] : i \in 1..Len(list)}

\* C18: WithRegion fails with UnsupportedRegion on a region outside the
\* enumerated set, WithLanguage with UnsupportedLanguage on a language
\* outside it, WithClient with NilTransport on nil; a failure returns no
\* option, a valid input returns its option and no error; and no request
\* is sent before the Client is built.
C18_OptionsValidateEagerly ==
    /\ optRet.fn = "WithRegion" =>
         IF optRet.arg \in Range(Regions)
         THEN optRet.err = NilErr
                /\ optRet.opt = [kind |-> "region", value |-> optRet.arg]
         ELSE optRet.err = UnsupportedRegion(optRet.arg) /\ optRet.opt = NilOption
    /\ optRet.fn = "WithLanguage" =>
         IF optRet.arg \in Range(Languages)
         THEN optRet.err = NilErr
                /\ optRet.opt = [kind |-> "lang", value |-> optRet.arg]
         ELSE optRet.err = UnsupportedLanguage(optRet.arg) /\ optRet.opt = NilOption
    /\ optRet.fn = "WithClient" =>
         IF optRet.arg # "nil"
         THEN optRet.err = NilErr
                /\ optRet.opt = [kind |-> "httpClient", value |-> optRet.arg]
         ELSE optRet.err = NilTransport /\ optRet.opt = NilOption
    /\ \A i \in 1..Len(opts) : opts[i] # NilOption
    /\ ~client.built => \A p \in Callers : RequestsSent(p) = 0

\* WithClient(nil) has failed after a valid option was made.
C18_Witness ==
    /\ optRet.fn = "WithClient" /\ optRet.arg = "nil"
    /\ optRet.err = NilTransport /\ optRet.opt = NilOption
    /\ Len(opts) = 1

----------------------------------------------------------------------------
(* C19 *)

\* C19: once the Client is built, no step of Authenticate, of a protected
\* call or of a refresh changes its language, its region, its transport
\* pointer or the transport it points to.
C19_ClientReadOnly ==
    [][client.built =>
         /\ client' = client
         /\ httpClients'[client.httpClient] = httpClients[client.httpClient]]_vars

\* A Client configured with a language and a region of its own went
\* through a protected call that refreshed the tokens and sent its GET.
C19_Witness ==
    /\ client.built /\ client.lang = "LangFR" /\ client.region = "RegionFR"
    /\ \E p \in Callers :
         /\ op[p] = "request" /\ pc[p] = "done"
         /\ hist[p].exch = "ok" /\ hist[p].nGet = 1

----------------------------------------------------------------------------
(* C14 *)

\* C14: nothing makes a caller wait for another caller's re-exchange: a
\* caller at the expiry check can always take it, and every caller that
\* found the access-expiry instant in the past runs a re-exchange of its
\* own.
C14_NoMutualExclusion ==
    \A p \in Callers :
        /\ pc[p] = "req_expiry" => ENABLED RequestExpiry(p)
        /\ (op[p] = "request" /\ hist[p].guard = "passed"
               /\ hist[p].expiry = "past") => hist[p].nExch = 1

\* Two callers found the same Token Pair expired, and each has completed
\* a re-exchange of its own before either replaced the pair.
C14_Witness ==
    \E p, q \in Callers :
        /\ p # q
        /\ op[p] = "request" /\ op[q] = "request"
        /\ hist[p].expiry = "past" /\ hist[q].expiry = "past"
        /\ hist[p].held = session.Tokens /\ hist[q].held = session.Tokens
        /\ pc[p] = "auth_ret" /\ pc[q] = "auth_ret"
        /\ hist[p].nExch = 1 /\ hist[q].nExch = 1
        /\ ret[p].err = NilErr /\ ret[q].err = NilErr

----------------------------------------------------------------------------
(* C15 *)

\* The Token Pair an exchange produces from the token response r at time t.
ExchangeResult(r, t) ==
    [nil |-> FALSE,
     AccessToken |-> StrField(r.body, "access_token"),
     RefreshToken |-> StrField(r.body, "refresh_token"),
     AccessExpires |-> NumField(r.body, "expires_in"),
     RefreshExpires |-> NumField(r.body, "refresh_token_expires_in"),
     AccessExpiresTime |-> t + WrapInt64(Second * NumField(r.body, "expires_in")),
     RefreshExpiresTime |->
         t + WrapInt64(Second * NumField(r.body, "refresh_token_expires_in"))]

\* C15: the Token Pair the session holds is the whole result of one
\* successful exchange; the pair changes only when a caller whose exchange
\* succeeded installs the result of that exchange, and every caller whose
\* re-exchange succeeded installs its own result whole, whatever the other
\* callers installed before: the last write decides the pair held.
C15_WholePairLastWriteWins ==
    [][/\ (session.exists /\ ~session.Tokens.nil) =>
            \E r \in RaceTokenResponses : \E t \in 0..clock :
                r.status = 200 /\ session.Tokens = ExchangeResult(r, t)
       /\ \A p \in Callers :
            (pc[p] = "auth_ret" /\ ret[p].err = NilErr) =>
                /\ ret[p].tokens = ExchangeResult(tokenResp[p], ret[p].at)
                /\ pc'[p] # "auth_ret" => session'.Tokens = ret[p].tokens
       /\ session'.Tokens # session.Tokens =>
            \E p \in Callers :
                /\ pc[p] = "auth_ret" /\ ret[p].err = NilErr
                /\ pc'[p] # "auth_ret"]_vars

\* Two callers re-exchanged for the same expired Token Pair, both
\* installed their results, and the session holds the later one.
C15_Witness ==
    \E p, q \in Callers :
        /\ p # q
        /\ op[p] = "request" /\ op[q] = "request"
        /\ hist[p].held = hist[q].held
        /\ hist[p].exch = "ok" /\ hist[q].exch = "ok"
        /\ pc[p] = "req_ret" /\ hist[p].nGet = 1
        /\ pc[q] = "req_send"
        /\ hist[p].got # hist[q].got
        /\ hist[p].bearer = hist[p].got.AccessToken
        /\ session.Tokens = hist[q].got

----------------------------------------------------------------------------
(* C21 *)

----------------------------------------------------------------------------
(* C22 *)

\* C22: a resource GET is sent only by a protected call and carries the
\* access token of the Token Pair the session holds as it is sent; a call
\* that made no re-exchange sends the access token held when it began; a
\* call that refreshed sends its GET once the new pair is installed, with
\* the new pair's access token, and so not the replaced pair's token when
\* the two differ.
C22_BearerIsHeldToken ==
    [][\A p \in Callers : hist'[p].nGet > hist[p].nGet =>
         /\ op[p] = "request"
         /\ hist'[p].bearer = session.Tokens.AccessToken
         /\ hist[p].nExch = 0 => hist'[p].bearer = hist[p].held.AccessToken
         /\ hist[p].nExch > 0 =>
              /\ hist[p].exch = "ok"
              /\ session.Tokens = hist[p].got
              /\ hist'[p].bearer = hist[p].got.AccessToken
              /\ hist[p].got.AccessToken # hist[p].held.AccessToken
                   => hist'[p].bearer # hist[p].held.AccessToken]_vars

\* A call that found the pair with access token A expired installed a
\* pair with access token B and sent its GET with B.
C22_Witness ==
    \E p \in Callers :
        /\ op[p] = "request" /\ hist[p].nGet = 1
        /\ hist[p].nExch = 1 /\ hist[p].exch = "ok"
        /\ hist[p].held.AccessToken = "A" /\ hist[p].got.AccessToken = "B"
        /\ session.Tokens = hist[p].got
        /\ hist[p].bearer = "B"

----------------------------------------------------------------------------
(* C23 *)

\* The call has sent its GET, or has returned.
Dispatched(p) == pc[p] \in {"req_ret", "done"}

----------------------------------------------------------------------------
(* C24 *)

\* C24: when Authenticate has returned without an error, the session it
\* returned holds a Token Pair with a non-empty access token, one that the
\* check of request line 27 lets pass.
C24_SessionUsable ==
    \A p \in Callers :
        (op[p] = "Authenticate" /\ pc[p] = "done" /\ ret[p].err = NilErr) =>
            /\ session.exists
            /\ ~session.Tokens.nil
            /\ session.Tokens.AccessToken # ""
            /\ ~TokensInvalid(session.Tokens)

----------------------------------------------------------------------------
(* C25 *)

\* The transport NewClient is given: the pointer of the last WithClient
\* option the program holds, http.DefaultClient when it holds none.
GivenTransport ==
    LET idx == {i \in 1..Len(opts) : opts[i].kind = "httpClient"}
    IN  IF idx = {} THEN "http.DefaultClient"
        ELSE opts[CHOOSE i \in idx : \A j \in idx : j <= i].value

\* C25: the step in which NewClient builds the Client changes no
\* http.Client object that existed before, the transport it was given
\* included; the new Client points to another object, which is the given
\* one with only CheckRedirect replaced; and no later step of the library
\* changes the default client or the caller's.
C25_TransportNotModified ==
    [][/\ (~client.built /\ client'.built) =>
            /\ \A q \in ClientPtrs :
                 httpClients[q] # NoObject => httpClients'[q] = httpClients[q]
            /\ client'.httpClient # GivenTransport
            /\ httpClients'[client'.httpClient] =
                 [httpClients[GivenTransport] EXCEPT
                    !.CheckRedirect = "ErrUseLastResponse"]
       /\ client.built =>
            \A q \in ClientPtrs \ {client.httpClient} :
                httpClients'[q] = httpClients[q]]_vars

\* A Client was built over the caller's http.Client: the caller's object
\* and the default client are as they were, and the Client uses a copy
\* with the caller's Timeout and redirects disabled.
C25_Witness ==
    /\ client.built /\ client.httpClient = "private"
    /\ httpClients["caller"] = [CheckRedirect |-> "caller", Timeout |-> 10]
    /\ httpClients["http.DefaultClient"] = DefaultClient
    /\ httpClients["private"] =
         [CheckRedirect |-> "ErrUseLastResponse", Timeout |-> 10]

====
